---- MODULE Spec2Model ----
(***************************************************************************)
(* Model of scripts/update_cluster_ami.py: one reconciliation run fetches  *)
(* the remote, optionally merges origin/main into the update branch,       *)
(* rewrites PROD_AMI / DEV_AMI in a YAML document, commits, pushes with    *)
(* --force-with-lease and posts a pull request.  Several runs work on      *)
(* clones of the same remote.                                              *)
(*                                                                         *)
(* git itself is not part of the sources; the effect of each git command   *)
(* the script issues is modelled after git 2.39:                           *)
(*   - "git fetch" does not prune: a remote-tracking ref survives the      *)
(*     deletion of the remote branch;                                      *)
(*   - "git pull --rebase" refuses to start on a dirty work tree unless    *)
(*     rebase.autoStash is set; with autostash the stash is re-applied     *)
(*     after the rebase and a conflicting re-application leaves conflict   *)
(*     markers in the file while the command still exits 0;                *)
(*   - "git push --force-with-lease <url> <branch>" has no remote-tracking *)
(*     ref for a bare URL, so the lease expects the ref not to exist.      *)
(***************************************************************************)
EXTENDS Integers, Sequences, FiniteSets, TLC

VARIABLES
    remoteMain,     \* commit origin's main points to
    remoteBranch,   \* commit origin's update branch points to, or NoCommit
    openPRs,        \* number of open pull requests head=update branch, base=main
    deletes,        \* number of times the remote update branch was deleted
    autoStash,      \* git config rebase.autoStash of the runner
    pc,             \* per run: position in __main__
    outcome,        \* per run: how the process ended ("running" before)
    trackMain,      \* per run: refs/remotes/origin/main (local main after the pull)
    trackBranch,    \* per run: refs/remotes/origin/<update branch>, or NoCommit
    localBranch,    \* per run: refs/heads/<update branch>, or NoCommit
    head,           \* per run: checked-out branch, "main" or "branch"
    wt,             \* per run: the document in the work tree
    ami_id,         \* per run: result of get_latest_available_ami
    updated_keys,   \* per run: updated_keys of update_yaml_file_preserve_tags
    updated,        \* per run: its return value (line 228), "unset" before
    differ,         \* per run: result of branches_differ
    observed,       \* per run: remote update-branch tip last read from origin
    commits,        \* per run: commits made by "git commit" (line 162)
    pushes,         \* per run: "git push" attempts (line 169)
    accepted,       \* per run: the push was accepted
    api,            \* per run: requests sent to the hosting API, <<method, status>>
    earlier,        \* per run: the runs that had ended when this run started
    mOrig,          \* mutate harness: the document drawn
    mDoc,           \* mutate harness: current document
    mVer,           \* mutate harness: version
    mPrev,          \* mutate harness: document before the last application
    mKeys,          \* mutate harness: updated_keys of the last application
    mChanged,       \* mutate harness: return value of the last application
    mCount          \* mutate harness: number of applications

gitVars == <<remoteMain, remoteBranch, openPRs, deletes, autoStash>>
runVars == <<pc, outcome, trackMain, trackBranch, localBranch, head, wt, ami_id,
             updated_keys, updated, differ, observed, commits, pushes, accepted, api, earlier>>
mutVars == <<mOrig, mDoc, mVer, mPrev, mKeys, mChanged, mCount>>
vars == <<gitVars, runVars, mutVars>>

----------------------------------------------------------------------------
(* Bounds *)

MaxDeletes == 1
MaxApply == 2

Runs == {"r1", "r2"}
Versions == {"ami1", "ami2"}
NoAmi == "none"

----------------------------------------------------------------------------
(* Documents: the YAML mapping, one value per key; NoKey marks a key that   *)
(* is not in the mapping and Marker a value torn by conflict markers.      *)

PlanKeys == <<"PROD_AMI", "DEV_AMI">>
AllKeys == {"PROD_AMI", "DEV_AMI", "OTHER"}
NoKey == "<absent>"
Marker == "<<<<<<<"

HasKey(data, key) == data[key] # NoKey
KeySet(data) == {k \in AllKeys : HasKey(data, k)}
Parseable(data) == \A k \in AllKeys : data[k] # Marker

\* ruamel's load/dump of the file: the mapping itself (formatting is not modelled)
Doc(prod, dev, other) ==
    [k \in AllKeys |-> IF k = "PROD_AMI" THEN prod ELSE IF k = "DEV_AMI" THEN dev ELSE other]

DocVals == {NoKey, "ami0"} \cup Versions
Docs == [AllKeys -> DocVals]

----------------------------------------------------------------------------
(* Commits are values: parents, tree (the document) and author.  NoCommit  *)
(* stands for a ref that does not exist.                                   *)

NoCommit == [parents |-> {}, doc |-> Doc(NoKey, NoKey, NoKey), author |-> "-"]
Commit(ps, d, a) == [parents |-> ps, doc |-> d, author |-> a]

RECURSIVE Ancestors(_)
Ancestors(c) == {c} \cup UNION {Ancestors(p) : p \in c.parents}

\* git merge-base: a latest common ancestor
MergeBase(a, b) ==
    LET common == Ancestors(a) \cap Ancestors(b)
        best == {c \in common : \A d \in common : c \in Ancestors(d) => c = d}
    IN  IF best = {} THEN NoCommit ELSE CHOOSE c \in best : TRUE

\* three-way merge of the document, key by key
Conflicts(base, ours, theirs) ==
    {k \in AllKeys : ours[k] # theirs[k] /\ ours[k] # base[k] /\ theirs[k] # base[k]}
Merge3(base, ours, theirs) ==
    [k \in AllKeys |->
        IF k \in Conflicts(base, ours, theirs) THEN Marker
        ELSE IF ours[k] = base[k] THEN theirs[k] ELSE ours[k]]

----------------------------------------------------------------------------
(* update_yaml_file_preserve_tags: the loop over ['PROD_AMI', 'DEV_AMI']   *)

\* the loop without "data[key] != ami_id"
RECURSIVE UpdateLoopNoCompare(_, _, _, _)
UpdateLoopNoCompare(data, ami, i, keys) ==
    IF i > Len(PlanKeys) THEN [data |-> data, updated_keys |-> keys]
    ELSE LET key == PlanKeys[i]
         IN  IF HasKey(data, key)
             THEN UpdateLoopNoCompare([data EXCEPT ![key] = ami], ami, i + 1, Append(keys, key))
             ELSE UpdateLoopNoCompare(data, ami, i + 1, keys)

\* the loop leaving after the first key it updated
RECURSIVE UpdateLoopFirstOnly(_, _, _, _)
UpdateLoopFirstOnly(data, ami, i, keys) ==
    IF i > Len(PlanKeys) \/ keys # <<>> THEN [data |-> data, updated_keys |-> keys]
    ELSE LET key == PlanKeys[i]
         IN  IF HasKey(data, key) /\ data[key] # ami
             THEN UpdateLoopFirstOnly([data EXCEPT ![key] = ami], ami, i + 1, Append(keys, key))
             ELSE UpdateLoopFirstOnly(data, ami, i + 1, keys)

\* the loop without "key in data"
RECURSIVE UpdateLoopNoKeyCheck(_, _, _, _)
UpdateLoopNoKeyCheck(data, ami, i, keys) ==
    IF i > Len(PlanKeys) THEN [data |-> data, updated_keys |-> keys]
    ELSE LET key == PlanKeys[i]
         IN  IF data[key] # ami
             THEN UpdateLoopNoKeyCheck([data EXCEPT ![key] = ami], ami, i + 1, Append(keys, key))
             ELSE UpdateLoopNoKeyCheck(data, ami, i + 1, keys)

RECURSIVE UpdateLoop(_, _, _, _)
UpdateLoop(data, ami, i, keys) ==
    IF i > Len(PlanKeys) THEN [data |-> data, updated_keys |-> keys]
    ELSE LET key == PlanKeys[i]
         IN  IF HasKey(data, key) /\ data[key] # ami
             THEN UpdateLoop([data EXCEPT ![key] = ami], ami, i + 1, Append(keys, key))
             ELSE UpdateLoop(data, ami, i + 1, keys)

update_yaml_file_preserve_tags(data, ami) ==
    LET r == UpdateLoop(data, ami, 1, <<>>)
    IN  [data |-> r.data, updated_keys |-> r.updated_keys,
         changed |-> r.updated_keys # <<>>]

Range(seq) == {seq[i] : i \in 1..Len(seq)}

----------------------------------------------------------------------------
(* The git operations of the script on commits and documents               *)

\* a comparison of the two head commits only
HeadsDiffer(rev1, rev2) == rev1 # rev2

\* branches_differ after the fetch: same commit, else "git diff --quiet"
branches_differ(rev1, rev2) ==
    IF rev1 = rev2 THEN FALSE ELSE rev1.doc # rev2.doc

\* checkout_branch: the commit the update branch is at after the checkout
checkout_branch(local, track, cur, create_if_missing) ==
    IF local # NoCommit THEN local
    ELSE IF create_if_missing THEN cur
    ELSE track

\* a merge that keeps going over a conflict
merge_forced(ours, theirs, r) ==
    IF theirs \in Ancestors(ours) THEN [ok |-> TRUE, tip |-> ours]
    ELSE IF ours \in Ancestors(theirs) THEN [ok |-> TRUE, tip |-> theirs]
    ELSE [ok |-> TRUE,
          tip |-> Commit({ours, theirs},
                         Merge3(MergeBase(ours, theirs).doc, ours.doc, theirs.doc), r)]

\* git merge origin/main --no-edit on the checked-out update branch
merge_main_into_branch(ours, theirs, r) ==
    IF theirs \in Ancestors(ours) THEN [ok |-> TRUE, tip |-> ours]
    ELSE IF ours \in Ancestors(theirs) THEN [ok |-> TRUE, tip |-> theirs]
    ELSE LET base == MergeBase(ours, theirs).doc
         IN  IF Conflicts(base, ours.doc, theirs.doc) # {}
             THEN [ok |-> FALSE, tip |-> ours]
             ELSE [ok |-> TRUE,
                   tip |-> Commit({ours, theirs}, Merge3(base, ours.doc, theirs.doc), r)]

\* git rebase replays one commit after the other on the new base: the change
\* a commit made to its parent is applied to the tip (a commit that changes
\* nothing there is dropped); it stops on the first conflict
RECURSIVE Replay(_, _)
Replay(tip, todo) ==
    IF todo = {} THEN [ok |-> TRUE, tip |-> tip]
    ELSE LET c == CHOOSE x \in todo : \A y \in todo \ {x} : y \notin Ancestors(x)
             base == IF c.parents = {} THEN NoCommit.doc
                     ELSE (CHOOSE q \in c.parents : TRUE).doc
             d == Merge3(base, tip.doc, c.doc)
         IN  IF Conflicts(base, tip.doc, c.doc) # {} THEN [ok |-> FALSE, tip |-> tip]
             ELSE Replay(IF d = tip.doc THEN tip ELSE Commit({tip}, d, c.author),
                         todo \ {c})

\* git pull --rebase origin <branch>: nothing to do when the local branch is
\* a linear descendant of the upstream tip; else the local commits upstream
\* lacks, merge commits left out, are replayed on the upstream tip
pull_rebase(local, upstream) ==
    LET mine == Ancestors(local) \ Ancestors(upstream)
    IN  IF upstream \in Ancestors(local) /\ \A c \in mine : Cardinality(c.parents) <= 1
        THEN [ok |-> TRUE, tip |-> local]
        ELSE Replay(upstream, {c \in mine : Cardinality(c.parents) <= 1})

\* a forced push without a lease
LeaseIgnored(remote, track) == TRUE

\* git push --force-with-lease <url> <branch>: a URL has no remote-tracking
\* ref, the lease holds iff the remote ref does not exist
LeaseHolds(remote, track) == remote = NoCommit

\* a hosting API that does not refuse a second request for the pair
PostPullsNoDuplicateCheck(open, headRef) ==
    IF headRef = NoCommit THEN {"422 Validation Failed", "500"} ELSE {"201", "500"}

\* the hosting API's answers to POST /repos/<repo>/pulls
PostPulls(open, headRef) ==
    IF open > 0 THEN {"422 A pull request already exists", "500"}
    ELSE IF headRef = NoCommit THEN {"422 Validation Failed", "500"}
    ELSE {"201", "500"}

\* a script that fails on every status but 201
PrOutcomeStrict(status) == IF status = "201" THEN "Published" ELSE "PrFailed"

\* lines 192-199: 201, 422 "already exists" and any other status are only
\* printed; the script then ends normally
PrOutcome(status) == "Published"

\* a script that publishes whatever the update returned
AlwaysPublish(changed) == "lsremote"

\* a script that sends the creation request again when nothing changed
RetryRequest(changed) == IF changed THEN "lsremote" ELSE "pr"

\* lines 229-235: "if updated:" publishes, else "File already up to date"
main_after_update(changed) == IF changed THEN "lsremote" ELSE "done"

\* exit status of the process for each way a run ends
ExitCode(o) == IF o \in {"UpToDate", "NothingStaged", "Published"} THEN 0 ELSE 1

----------------------------------------------------------------------------
(* Initial states: a repository whose main holds the document, an update   *)
(* branch that is absent, identical to main or carries an earlier update,  *)
(* and clones that are fresh or still hold the remote-tracking ref of an   *)
(* update branch that was deleted on the remote.                           *)

RootDocs == {Doc("ami0", "ami0", "x"), Doc("ami0", NoKey, "x")}
Root(d) == Commit({}, d, "seed")
\* main: the root, a commit that edits an unrelated key, or one that edits PROD_AMI
MainTips(d) ==
    {Root(d), Commit({Root(d)}, [d EXCEPT !["OTHER"] = "y"], "dev"),
     Commit({Root(d)}, [d EXCEPT !["PROD_AMI"] = "ami2"], "dev")}
\* an earlier update of the branch to ami1, made on the root
OldUpdate(d) == Commit({Root(d)}, update_yaml_file_preserve_tags(d, "ami1").data, "bot")
\* a branch commit whose change main received as another commit (a squash
\* merge): the same tree as main's tip, not the same commit
Squashed(main) == Commit(main.parents, main.doc, "bot")

InitMutateIdle ==
    /\ mDoc = Doc(NoKey, NoKey, NoKey) /\ mPrev = Doc(NoKey, NoKey, NoKey)
    /\ mOrig = Doc(NoKey, NoKey, NoKey)
    /\ mVer = NoAmi /\ mKeys = <<>> /\ mChanged = FALSE /\ mCount = 0

InitRuns ==
    /\ pc = [r \in Runs |-> "fetch"]
    /\ outcome = [r \in Runs |-> "running"]
    /\ trackMain = [r \in Runs |-> NoCommit]
    /\ localBranch = [r \in Runs |-> NoCommit]
    /\ head = [r \in Runs |-> "main"]
    /\ wt = [r \in Runs |-> NoCommit.doc]
    /\ ami_id = [r \in Runs |-> NoAmi]
    /\ updated_keys = [r \in Runs |-> <<>>]
    /\ updated = [r \in Runs |-> "unset"]
    /\ differ = [r \in Runs |-> FALSE]
    /\ observed = [r \in Runs |-> NoCommit]
    /\ commits = [r \in Runs |-> 0]
    /\ pushes = [r \in Runs |-> 0]
    /\ accepted = [r \in Runs |-> FALSE]
    /\ api = [r \in Runs |-> <<>>]
    /\ earlier = [r \in Runs |-> {}]

Init ==
    /\ \E d \in RootDocs :
        /\ remoteMain \in MainTips(d)
        /\ remoteBranch \in {NoCommit, remoteMain, OldUpdate(d), Squashed(remoteMain)}
        /\ IF remoteBranch = NoCommit
           THEN trackBranch \in [Runs -> {NoCommit, OldUpdate(d)}]
           ELSE trackBranch = [r \in Runs |-> NoCommit]
    /\ openPRs = 0
    /\ deletes = 0
    /\ autoStash \in BOOLEAN
    /\ InitRuns
    /\ InitMutateIdle

----------------------------------------------------------------------------
(* __main__, one action per step that talks to the remote or ends the run  *)

Exit(r, o) ==
    /\ pc' = [pc EXCEPT ![r] = "done"]
    /\ outcome' = [outcome EXCEPT ![r] = o]

\* lines 204-208: git fetch --all; checkout main; git pull origin main
Fetch(r) ==
    /\ pc[r] = "fetch"
    /\ trackMain' = [trackMain EXCEPT ![r] = remoteMain]
    /\ trackBranch' = [trackBranch EXCEPT ![r] =
                          IF remoteBranch # NoCommit THEN remoteBranch ELSE @]
    /\ observed' = [observed EXCEPT ![r] = remoteBranch]
    /\ head' = [head EXCEPT ![r] = "main"]
    /\ wt' = [wt EXCEPT ![r] = remoteMain.doc]
    /\ pc' = [pc EXCEPT ![r] = "differ"]
    /\ earlier' = [earlier EXCEPT ![r] = {q \in Runs : pc[q] = "done"}]
    /\ UNCHANGED <<gitVars, mutVars, outcome, localBranch, ami_id, updated_keys, updated,
                   differ, commits, pushes, accepted, api>>

\* line 211, branches_differ: git fetch origin, rev-parse of both refs
\* (check=True: an unknown origin/<branch> raises CalledProcessError), diff
BranchesDiffer(r) ==
    /\ pc[r] = "differ"
    /\ LET tb == IF remoteBranch # NoCommit THEN remoteBranch ELSE trackBranch[r]
       IN  /\ trackBranch' = [trackBranch EXCEPT ![r] = tb]
           /\ observed' = [observed EXCEPT ![r] = remoteBranch]
           /\ IF tb = NoCommit
              THEN /\ Exit(r, "Crash")
                   /\ UNCHANGED differ
              ELSE /\ differ' = [differ EXCEPT ![r] = branches_differ(trackMain[r], tb)]
                   /\ pc' = [pc EXCEPT ![r] =
                                IF branches_differ(trackMain[r], tb) THEN "merge" ELSE "ami"]
                   /\ UNCHANGED outcome
    /\ UNCHANGED <<gitVars, mutVars, trackMain, localBranch, head, wt, ami_id,
                   updated_keys, updated, commits, pushes, accepted, api, earlier>>

\* a merge step that pushes the merged update branch at once
MergeMainAndPush(r) ==
    /\ pc[r] = "merge"
    /\ LET ours == checkout_branch(localBranch[r], trackBranch[r], trackMain[r], FALSE)
           m == merge_main_into_branch(ours, trackMain[r], r)
       IN  /\ localBranch' = [localBranch EXCEPT ![r] = m.tip]
           /\ head' = [head EXCEPT ![r] = "branch"]
           /\ wt' = [wt EXCEPT ![r] = m.tip.doc]
           /\ IF m.ok
              THEN /\ pc' = [pc EXCEPT ![r] = "ami"]
                   /\ remoteBranch' = m.tip
                   /\ UNCHANGED outcome
              ELSE Exit(r, "MergeConflict") /\ UNCHANGED remoteBranch
    /\ UNCHANGED <<remoteMain, openPRs, deletes, autoStash, mutVars, trackMain,
                   trackBranch, ami_id, updated_keys, updated, differ, observed,
                   commits, pushes, accepted, api, earlier>>

\* lines 213-219, merge_main_into_branch: checkout of the update branch,
\* git merge origin/main; on failure git merge --abort and sys.exit(1)
MergeMain(r) ==
    /\ pc[r] = "merge"
    /\ LET ours == checkout_branch(localBranch[r], trackBranch[r], trackMain[r], FALSE)
           m == merge_main_into_branch(ours, trackMain[r], r)
       IN  /\ localBranch' = [localBranch EXCEPT ![r] = m.tip]
           /\ head' = [head EXCEPT ![r] = "branch"]
           /\ wt' = [wt EXCEPT ![r] = m.tip.doc]
           /\ IF m.ok
              THEN pc' = [pc EXCEPT ![r] = "ami"] /\ UNCHANGED outcome
              ELSE Exit(r, "MergeConflict")
    /\ UNCHANGED <<gitVars, mutVars, trackMain, trackBranch, ami_id, updated_keys, updated,
                   differ, observed, commits, pushes, accepted, api, earlier>>

\* lines 223-226, get_latest_available_ami: an AMI id, or None and sys.exit(1)
GetAmi(r) ==
    /\ pc[r] = "ami"
    /\ \E v \in Versions \cup {NoAmi} :
        /\ ami_id' = [ami_id EXCEPT ![r] = v]
        /\ IF v = NoAmi
           THEN Exit(r, "NoAmi")
           ELSE pc' = [pc EXCEPT ![r] = "mutate"] /\ UNCHANGED outcome
    /\ UNCHANGED <<gitVars, mutVars, trackMain, trackBranch, localBranch, head, wt,
                   updated_keys, updated, differ, observed, commits, pushes, accepted, api, earlier>>

\* lines 228-235 and 46-71: load, update, dump; "File already up to date"
\* ends the run with exit 0 (a file with conflict markers does not load)
Mutate(r) ==
    /\ pc[r] = "mutate"
    /\ IF ~Parseable(wt[r])
       THEN /\ Exit(r, "Crash")
            /\ UNCHANGED <<wt, updated_keys, updated>>
       ELSE LET res == update_yaml_file_preserve_tags(wt[r], ami_id[r])
            IN  /\ wt' = [wt EXCEPT ![r] = res.data]
                /\ updated_keys' = [updated_keys EXCEPT ![r] = res.updated_keys]
                /\ updated' = [updated EXCEPT ![r] = IF res.changed THEN "True" ELSE "False"]
                /\ IF main_after_update(res.changed) = "done"
                   THEN Exit(r, "UpToDate")
                   ELSE /\ pc' = [pc EXCEPT ![r] = main_after_update(res.changed)]
                        /\ UNCHANGED outcome
    /\ UNCHANGED <<gitVars, mutVars, trackMain, trackBranch, localBranch, head,
                   ami_id, differ, observed, commits, pushes, accepted, api, earlier>>

\* lines 133-143, commit_and_push_changes: git config, checkout_branch with
\* create_if_missing (git checkout -b from the checked-out main), git ls-remote
LsRemote(r) ==
    /\ pc[r] = "lsremote"
    /\ localBranch' = [localBranch EXCEPT ![r] =
                          checkout_branch(@, trackBranch[r], trackMain[r], TRUE)]
    /\ head' = [head EXCEPT ![r] = "branch"]
    /\ observed' = [observed EXCEPT ![r] = remoteBranch]
    /\ pc' = [pc EXCEPT ![r] = IF remoteBranch # NoCommit THEN "pull" ELSE "add"]
    /\ UNCHANGED <<gitVars, mutVars, outcome, trackMain, trackBranch, wt, ami_id,
                   updated_keys, updated, differ, commits, pushes, accepted, api, earlier>>

\* lines 144-150: git pull --rebase origin <branch>.  The pull raises when the
\* work tree is dirty without autostash or the remote ref is gone; then
\* "git rebase --abort" has no rebase to abort and raises as well.  A rebase
\* that stops on a conflict is aborted and the run exits 1.  With autostash
\* the stashed edit is re-applied on the new tip, conflict markers included.
PullRebase(r) ==
    /\ pc[r] = "pull"
    /\ LET dirty == wt[r] # localBranch[r].doc
           res == pull_rebase(localBranch[r], remoteBranch)
       IN  IF remoteBranch = NoCommit \/ (dirty /\ ~autoStash)
           THEN /\ Exit(r, "Crash")
                /\ UNCHANGED <<localBranch, trackBranch, observed, wt>>
           ELSE /\ trackBranch' = [trackBranch EXCEPT ![r] = remoteBranch]
                /\ observed' = [observed EXCEPT ![r] = remoteBranch]
                /\ IF res.ok
                   THEN /\ localBranch' = [localBranch EXCEPT ![r] = res.tip]
                        /\ wt' = [wt EXCEPT ![r] =
                                     Merge3(localBranch[r].doc, res.tip.doc, @)]
                        /\ pc' = [pc EXCEPT ![r] = "add"]
                        /\ UNCHANGED outcome
                   ELSE /\ Exit(r, "RebaseFailed")
                        /\ UNCHANGED <<localBranch, wt>>
    /\ UNCHANGED <<gitVars, mutVars, trackMain, head, ami_id, updated_keys, updated, differ,
                   commits, pushes, accepted, api, earlier>>

\* git add followed by a commit that is made even when nothing is staged
AddCommitAlways(r) ==
    /\ pc[r] = "add"
    /\ localBranch' = [localBranch EXCEPT ![r] = Commit({@}, wt[r], r)]
    /\ commits' = [commits EXCEPT ![r] = @ + 1]
    /\ pc' = [pc EXCEPT ![r] = "push"]
    /\ UNCHANGED <<gitVars, mutVars, outcome, trackMain, trackBranch, head, wt, ami_id,
                   updated_keys, updated, differ, observed, pushes, accepted, api, earlier>>

\* lines 152-162: git add; nothing staged returns False (the run ends, exit 0),
\* else git commit
AddCommit(r) ==
    /\ pc[r] = "add"
    /\ IF wt[r] = localBranch[r].doc
       THEN /\ Exit(r, "NothingStaged")
            /\ UNCHANGED <<localBranch, commits>>
       ELSE /\ localBranch' = [localBranch EXCEPT ![r] = Commit({@}, wt[r], r)]
            /\ commits' = [commits EXCEPT ![r] = @ + 1]
            /\ pc' = [pc EXCEPT ![r] = "push"]
            /\ UNCHANGED outcome
    /\ UNCHANGED <<gitVars, mutVars, trackMain, trackBranch, head, wt, ami_id,
                   updated_keys, updated, differ, observed, pushes, accepted, api, earlier>>

\* a push that, once rejected, pulls again and pushes a second time
PushRetryOnce(r) ==
    /\ pc[r] = "push"
    /\ pushes' = [pushes EXCEPT ![r] = @ + 1]
    /\ IF LeaseHolds(remoteBranch, trackBranch[r])
       THEN /\ remoteBranch' = localBranch[r]
            /\ accepted' = [accepted EXCEPT ![r] = TRUE]
            /\ pc' = [pc EXCEPT ![r] = "pr"]
            /\ UNCHANGED outcome
       ELSE /\ IF pushes[r] = 0
               THEN pc' = [pc EXCEPT ![r] = "pull"] /\ UNCHANGED outcome
               ELSE Exit(r, "PushFailed")
            /\ UNCHANGED <<remoteBranch, accepted>>
    /\ UNCHANGED <<remoteMain, openPRs, deletes, autoStash, mutVars, trackMain,
                   trackBranch, localBranch, head, wt, ami_id, updated_keys, updated,
                   differ, observed, commits, api, earlier>>

\* a push that is repeated after every rejection, up to four attempts
PushUntilAccepted(r) ==
    /\ pc[r] = "push"
    /\ pushes' = [pushes EXCEPT ![r] = @ + 1]
    /\ IF LeaseHolds(remoteBranch, trackBranch[r])
       THEN /\ remoteBranch' = localBranch[r]
            /\ accepted' = [accepted EXCEPT ![r] = TRUE]
            /\ pc' = [pc EXCEPT ![r] = "pr"]
            /\ UNCHANGED outcome
       ELSE /\ IF pushes[r] < 3
               THEN UNCHANGED <<pc, outcome>>
               ELSE Exit(r, "PushFailed")
            /\ UNCHANGED <<remoteBranch, accepted>>
    /\ UNCHANGED <<remoteMain, openPRs, deletes, autoStash, mutVars, trackMain,
                   trackBranch, localBranch, head, wt, ami_id, updated_keys, updated,
                   differ, observed, commits, api, earlier>>

\* a push whose rejection is printed only, the script going on to the request
PushNoExit(r) ==
    /\ pc[r] = "push"
    /\ pushes' = [pushes EXCEPT ![r] = @ + 1]
    /\ pc' = [pc EXCEPT ![r] = "pr"]
    /\ IF LeaseHolds(remoteBranch, trackBranch[r])
       THEN /\ remoteBranch' = localBranch[r]
            /\ accepted' = [accepted EXCEPT ![r] = TRUE]
       ELSE UNCHANGED <<remoteBranch, accepted>>
    /\ UNCHANGED <<remoteMain, openPRs, deletes, autoStash, mutVars, outcome, trackMain,
                   trackBranch, localBranch, head, wt, ami_id, updated_keys, updated,
                   differ, observed, commits, api, earlier>>

\* lines 164-175: git push --force-with-lease <url> <branch>; a rejected push
\* prints "Push failed" and sys.exit(1)
Push(r) ==
    /\ pc[r] = "push"
    /\ pushes' = [pushes EXCEPT ![r] = @ + 1]
    /\ IF LeaseHolds(remoteBranch, trackBranch[r])
       THEN /\ remoteBranch' = localBranch[r]
            /\ accepted' = [accepted EXCEPT ![r] = TRUE]
            /\ pc' = [pc EXCEPT ![r] = "pr"]
            /\ UNCHANGED outcome
       ELSE /\ Exit(r, "PushFailed")
            /\ UNCHANGED <<remoteBranch, accepted>>
    /\ UNCHANGED <<remoteMain, openPRs, deletes, autoStash, mutVars, trackMain,
                   trackBranch, localBranch, head, wt, ami_id, updated_keys, updated, differ,
                   observed, commits, api, earlier>>

\* lines 232-233 and 178-199, create_pull_request: one POST; 201, 422
\* "already exists" and every other status are printed and the run ends, exit 0
CreatePR(r) ==
    /\ pc[r] = "pr"
    /\ \E status \in PostPulls(openPRs, remoteBranch) :
        /\ api' = [api EXCEPT ![r] = Append(@, <<"POST", status>>)]
        /\ openPRs' = IF status = "201" THEN openPRs + 1 ELSE openPRs
        /\ Exit(r, PrOutcome(status))
    /\ UNCHANGED <<remoteMain, remoteBranch, deletes, autoStash, mutVars, trackMain,
                   trackBranch, localBranch, head, wt, ami_id, updated_keys, updated, differ,
                   observed, commits, pushes, accepted, earlier>>

\* the environment deletes the remote update branch (line 141 asks whether it
\* exists); the hosting service closes the pull request of a deleted head
EnvDeleteBranch ==
    /\ deletes < MaxDeletes
    /\ remoteBranch # NoCommit
    /\ remoteBranch' = NoCommit
    /\ openPRs' = 0
    /\ deletes' = deletes + 1
    /\ UNCHANGED <<remoteMain, autoStash, runVars, mutVars>>

Step(r) ==
    \/ Fetch(r)
    \/ BranchesDiffer(r)
    \/ MergeMain(r)
    \/ GetAmi(r)
    \/ Mutate(r)
    \/ LsRemote(r)
    \/ PullRebase(r)
    \/ AddCommit(r)
    \/ Push(r)
    \/ CreatePR(r)

Next == \E r \in Runs : Step(r)
Spec == Init /\ [][Next]_vars

\* each run is a process of its own that executes its next statement: every
\* step of __main__ is a blocking call that returns or raises
SpecFair == Spec /\ \A r \in Runs : WF_vars(Step(r))

NextEnv == Next \/ EnvDeleteBranch
SpecEnv == Init /\ [][NextEnv]_vars

----------------------------------------------------------------------------
(* update_yaml_file_preserve_tags applied repeatedly to any document       *)

InitMutate ==
    /\ mDoc \in Docs
    /\ mVer \in Versions
    /\ mPrev = mDoc
    /\ mOrig = mDoc
    /\ mKeys = <<>> /\ mChanged = FALSE /\ mCount = 0
    /\ remoteMain = NoCommit /\ remoteBranch = NoCommit
    /\ openPRs = 0 /\ deletes = 0 /\ autoStash = FALSE
    /\ trackBranch = [r \in Runs |-> NoCommit]
    /\ InitRuns

ApplyMutate ==
    /\ mCount < MaxApply
    /\ LET res == update_yaml_file_preserve_tags(mDoc, mVer)
       IN  /\ mPrev' = mDoc
           /\ mDoc' = res.data
           /\ mKeys' = res.updated_keys
           /\ mChanged' = res.changed
    /\ mCount' = mCount + 1
    /\ UNCHANGED <<mOrig, mVer, gitVars, runVars>>

SpecMutate == InitMutate /\ [][ApplyMutate]_vars

----------------------------------------------------------------------------
(* Properties *)

Other(r) == CHOOSE q \in Runs : q # r

\* C1: a run whose mutation reported changed = false has ended with
\* "File already up to date" and exit 0, having made no commit, no push and
\* no call to the hosting API.
C1_NoChangeShortCircuits ==
    \A r \in Runs :
        updated[r] = "False" =>
            /\ pc[r] = "done"
            /\ outcome[r] = "UpToDate"
            /\ ExitCode(outcome[r]) = 0
            /\ commits[r] = 0
            /\ pushes[r] = 0
            /\ api[r] = <<>>

\* a run found every present plan key already at its AMI id, on a branch
\* another run published
C1_Witness ==
    \E r \in Runs :
        /\ updated[r] = "False"
        /\ accepted[Other(r)]
        /\ \E k \in AllKeys : wt[r][k] = ami_id[r]

\* the step in which run r's push is accepted
PushAccepted(r) == pc[r] = "push" /\ accepted'[r]

\* C2: a push is accepted only while the remote update branch is still what
\* the pushing run last read from origin, and the accepted push keeps every
\* commit that was on the remote branch.
C2_AcceptedOnlyOnObservedTip ==
    [][\A r \in Runs :
          PushAccepted(r) =>
              /\ remoteBranch = observed[r]
              /\ remoteBranch' = localBranch[r]
              /\ remoteBranch # NoCommit => remoteBranch \in Ancestors(remoteBranch')]_vars

\* one run's push was accepted and the other's, prepared on the same
\* observation, was rejected because the remote branch had moved
C2_Witness ==
    \E r \in Runs :
        /\ accepted[r]
        /\ remoteBranch = localBranch[r]
        /\ outcome[Other(r)] = "PushFailed"
        /\ observed[Other(r)] # remoteBranch

\* C3 as claimed: a run ends with the fatal push failure only after a second
\* rejection, that is after one recovery and two push attempts.
C3_Original ==
    \A r \in Runs : outcome[r] = "PushFailed" => pushes[r] = 2

\* C3 as amended: a rejected push is not recovered.  No run pushes twice, and
\* the first rejection ends the run with exit 1, its commit unpublished and
\* no call to the hosting API.
C3_RejectionIsFatal ==
    \A r \in Runs :
        /\ pushes[r] <= 1
        /\ (pushes[r] = 1 /\ ~accepted[r]) =>
              /\ pc[r] = "done"
              /\ outcome[r] = "PushFailed"
              /\ ExitCode(outcome[r]) = 1
              /\ commits[r] = 1
              /\ api[r] = <<>>

\* a run was rejected because the other run created the branch after this
\* run had seen it absent
C3_Witness ==
    \E r \in Runs :
        /\ outcome[r] = "PushFailed"
        /\ pushes[r] = 1
        /\ observed[r] = NoCommit
        /\ accepted[Other(r)]

\* both runs have ended after a push each, with different AMI ids
BothPushed ==
    /\ \A r \in Runs : pc[r] = "done" /\ pushes[r] >= 1
    /\ \E r \in Runs : ami_id[r] # ami_id[Other(r)]
\* the commit of every run is on the remote update branch
BothPresent == \A r \in Runs : localBranch[r] \in Ancestors(remoteBranch)

C5_Idempotent ==
    mCount >= 2 => (mChanged = FALSE /\ mKeys = <<>> /\ mDoc = mPrev)

\* the first application changed the document, then came the second
C5_Witness == mCount = 2 /\ mOrig # mDoc

\* the plan keys present in the document before the last application with a
\* value other than the AMI id
Stale(data, ami) == {k \in Range(PlanKeys) : HasKey(data, k) /\ data[k] # ami}

\* C6: updated_keys is exactly the set of plan keys that were present with a
\* different value, each of them now holds the AMI id, and the return value
\* is true iff that set is not empty.
C6_ChangedFields ==
    mCount >= 1 =>
        /\ Range(mKeys) = Stale(mPrev, mVer)
        /\ Len(mKeys) = Cardinality(Stale(mPrev, mVer))
        /\ \A k \in Stale(mPrev, mVer) : mDoc[k] = mVer
        /\ mChanged <=> Stale(mPrev, mVer) # {}

\* both plan keys were stale and both were updated
C6_Witness ==
    /\ mCount = 1
    /\ mKeys = <<"PROD_AMI", "DEV_AMI">>
    /\ mChanged

\* C7: the update adds no key and removes none, and every key outside the
\* plan keeps its value.
C7_Frame ==
    mCount >= 1 =>
        /\ KeySet(mDoc) = KeySet(mPrev)
        /\ \A k \in AllKeys \ Range(PlanKeys) : mDoc[k] = mPrev[k]

\* a document without DEV_AMI was updated: DEV_AMI was not created
C7_Witness ==
    /\ mCount = 1
    /\ mChanged
    /\ ~HasKey(mPrev, "DEV_AMI")
    /\ ~HasKey(mDoc, "DEV_AMI")
    /\ HasKey(mDoc, "OTHER")

AlreadyExists == "422 A pull request already exists"
Calls(r) == {api[r][i] : i \in 1..Len(api[r])}

MergeWillConflict(r) ==
    /\ pc[r] = "merge"
    /\ LET ours == checkout_branch(localBranch[r], trackBranch[r], trackMain[r], FALSE)
           theirs == trackMain[r]
           base == MergeBase(ours, theirs).doc
       IN  /\ theirs \notin Ancestors(ours)
           /\ ours \notin Ancestors(theirs)
           /\ \E k \in AllKeys : /\ ours.doc[k] # theirs.doc[k]
                                 /\ ours.doc[k] # base[k]
                                 /\ theirs.doc[k] # base[k]

C10_Aborted ==
    \A r \in Runs :
        outcome[r] = "MergeConflict" =>
            /\ pc[r] = "done"
            /\ ExitCode(outcome[r]) = 1
            /\ updated[r] = "unset"
            /\ commits[r] = 0
            /\ pushes[r] = 0
            /\ api[r] = <<>>
            /\ localBranch[r] = trackBranch[r]
            /\ wt[r] = trackBranch[r].doc
            /\ \A c \in Ancestors(remoteBranch) : c.author # r

\* C10: a conflicting merge of main into the update branch ends the run at
\* once with the merge-conflict failure and exit 1; the merge is aborted
\* (the branch and the work tree are as checked out), the document is not
\* updated, nothing is committed or pushed and no commit of the run is on
\* the remote update branch.
C10_MergeConflictIsFatal ==
    /\ []C10_Aborted
    /\ [][\A r \in Runs :
             (MergeWillConflict(r) /\ pc'[r] # pc[r]) =>
                 /\ outcome'[r] = "MergeConflict"
                 /\ remoteBranch' = remoteBranch]_vars

\* a run ended on a merge conflict while the update branch exists remotely
C10_Witness ==
    \E r \in Runs :
        /\ outcome[r] = "MergeConflict"
        /\ remoteBranch # NoCommit
        /\ Conflicts(MergeBase(trackBranch[r], trackMain[r]).doc,
                     trackBranch[r].doc, trackMain[r].doc) # {}

\* C11: a run that finds no update branch on the remote when it compares the
\* branches creates the branch at main's tip on the remote and goes on to
\* the update without ending.
C11_Original ==
    [][\A r \in Runs :
          (pc[r] = "differ" /\ remoteBranch = NoCommit /\ pc'[r] # "differ") =>
              /\ outcome'[r] = "running"
              /\ remoteBranch' = trackMain[r]]_vars

\* the status the hosting API answered to the run's creation request
PrAnswer(r) == api[r][Len(api[r])][2]

\* the creation request of the run was answered with a failure: neither 201
\* nor the 422 that names an existing pull request
PrFailed(r) == api[r] # <<>> /\ PrAnswer(r) \notin {"201", AlreadyExists}

\* C12: a run that met a fatal condition (no AMI, merge conflict, rebase
\* failure, rejected push, failed creation request) has ended with a
\* non-zero exit status, and a run that ended with exit status 0 either
\* published in full or had nothing to do; the accepted push stays on the
\* remote when the creation request fails.
C12_Original ==
    \A r \in Runs : pc[r] = "done" =>
        /\ (outcome[r] \in {"NoAmi", "MergeConflict", "RebaseFailed", "PushFailed"}
               \/ PrFailed(r)) => ExitCode(outcome[r]) # 0
        /\ ExitCode(outcome[r]) = 0 =>
               \/ outcome[r] \in {"UpToDate", "NothingStaged"}
               \/ accepted[r] /\ ~PrFailed(r)
        /\ (PrFailed(r) /\ remoteBranch # NoCommit) => localBranch[r] \in Ancestors(remoteBranch)

\* run r started after run q had ended with an accepted push, and was given
\* the version q had published
Rerun(r, q) == q \in earlier[r] /\ accepted[q] /\ ami_id[r] = ami_id[q]

\* C13 as claimed: when the creation request of a run failed after its
\* accepted push, a later run with the same version that finds nothing to
\* change has sent the creation request again.
C13_Original ==
    \A r \in Runs : \A q \in Runs \ {r} :
        (Rerun(r, q) /\ PrFailed(q) /\ pc[r] = "done" /\ outcome[r] = "UpToDate")
            => api[r] # <<>>

\* C13: when the creation request of a run failed after its accepted push,
\* a later run with the same version ends with "File already up to date"
\* without any call to the hosting API, and no pull request is open.
C13_NoRetryOfRequest ==
    \A r \in Runs : \A q \in Runs \ {r} :
        (Rerun(r, q) /\ PrFailed(q) /\ pc[r] = "done") =>
            /\ outcome[r] = "UpToDate"
            /\ api[r] = <<>>
            /\ openPRs = 0

C13_Witness ==
    \E r \in Runs :
        /\ Rerun(r, Other(r)) /\ PrFailed(Other(r))
        /\ pc[r] = "done" /\ outcome[r] = "UpToDate"
        /\ remoteBranch = localBranch[Other(r)]

\* C14: a run started after another run published a version, and given that
\* same version, ends with "File already up to date": it reports no change,
\* makes no commit and no push, sends nothing to the hosting API, and leaves
\* the remote branch and the open pull request as the first run left them.
C14_SecondRunIsNoChange ==
    \A r \in Runs : \A q \in Runs \ {r} :
        (Rerun(r, q) /\ pc[r] = "done") =>
            /\ outcome[r] = "UpToDate" /\ updated[r] = "False"
            /\ updated_keys[r] = <<>>
            /\ commits[r] = 0 /\ pushes[r] = 0
            /\ api[r] = <<>>
            /\ remoteBranch = localBranch[q]
            /\ openPRs = (IF PrAnswer(q) = "201" THEN 1 ELSE 0)

C14_Witness ==
    \E r \in Runs :
        /\ Rerun(r, Other(r)) /\ PrAnswer(Other(r)) = "201"
        /\ pc[r] = "done" /\ outcome[r] = "UpToDate"
        /\ openPRs = 1 /\ remoteBranch = localBranch[Other(r)]

\* C15: a run that is alone (the other run never starts), whose update
\* rewrote both PROD_AMI and DEV_AMI and whose creation request, if sent, was
\* not answered with a failure, has ended with exit status 0 after exactly
\* one commit and one accepted push; the remote update branch carries the
\* version in both fields and exactly one pull request is open.
C15_Original ==
    \A r \in Runs :
        (/\ pc[Other(r)] = "fetch"
         /\ pc[r] = "done"
         /\ updated_keys[r] = PlanKeys
         /\ ~PrFailed(r)) =>
            /\ ExitCode(outcome[r]) = 0
            /\ commits[r] = 1 /\ pushes[r] = 1 /\ accepted[r]
            /\ remoteBranch # NoCommit
            /\ \A k \in Range(PlanKeys) : remoteBranch.doc[k] = ami_id[r]
            /\ openPRs = 1

\* C16: no run attempts more than two pushes, and every run ends: under any
\* interleaving of the runs' steps all runs eventually reach a final outcome.
C16_Terminates ==
    /\ [](\A r \in Runs : pushes[r] <= 2)
    /\ <>(\A r \in Runs : pc[r] = "done" /\ outcome[r] # "running")

C16_Witness ==
    /\ \A r \in Runs : pc[r] = "done" /\ outcome[r] # "running"
    /\ \E r \in Runs : pushes[r] = 1 /\ outcome[r] = "PushFailed" /\ accepted[Other(r)]

\* C17 as claimed: the result of the comparison is true exactly when
\* origin/main and origin/<update branch> are different commits after the
\* fetch, and the merge step is taken exactly in that case.
C17_Original ==
    [][\A r \in Runs :
          (pc[r] = "differ" /\ pc'[r] \in {"merge", "ami"}) =>
              /\ differ'[r] = (trackMain[r] # trackBranch'[r])
              /\ (pc'[r] = "merge") = (trackMain[r] # trackBranch'[r])]_vars

\* C17: the result of the comparison is true exactly when origin/main and
\* origin/<update branch> are different commits with different content; the
\* merge step is taken exactly in that case, so a run that is about to
\* update the file has main merged into the checked-out update branch if the
\* result was true and is still on main, without a merge, if it was false.
C17_DifferIsContentDiffer ==
    /\ [][\A r \in Runs :
            (pc[r] = "differ" /\ pc'[r] \in {"merge", "ami"}) =>
                LET d == /\ trackMain[r] # trackBranch'[r]
                         /\ trackMain[r].doc # trackBranch'[r].doc
                IN  differ'[r] = d /\ (pc'[r] = "merge") = d]_vars
    /\ [](\A r \in Runs : pc[r] \in {"ami", "mutate"} =>
            IF differ[r]
            THEN head[r] = "branch" /\ trackMain[r] \in Ancestors(localBranch[r])
            ELSE head[r] = "main" /\ localBranch[r] = NoCommit)

C17_Witness ==
    \E r \in Runs :
        /\ pc[r] = "mutate" /\ ~differ[r]
        /\ trackBranch[r] # NoCommit
        /\ trackMain[r] # trackBranch[r]
        /\ trackMain[r].doc = trackBranch[r].doc
        /\ localBranch[r] = NoCommit

\* C18: a run whose update reported a change but whose "git add" staged
\* nothing ends there as a no-change run: exit status 0, no commit, no push
\* and no call to the hosting API.
C18_NothingStagedIsNoChange ==
    /\ [][\A r \in Runs :
            (pc[r] = "add" /\ pc'[r] # "add" /\ wt[r] = localBranch[r].doc) =>
                /\ pc'[r] = "done" /\ outcome'[r] = "NothingStaged"
                /\ localBranch'[r] = localBranch[r]]_vars
    /\ [](\A r \in Runs : outcome[r] = "NothingStaged" =>
            /\ pc[r] = "done" /\ ExitCode(outcome[r]) = 0
            /\ updated[r] = "True"
            /\ commits[r] = 0 /\ pushes[r] = 0 /\ ~accepted[r]
            /\ api[r] = <<>>)

C18_Witness ==
    \E r \in Runs :
        /\ pc[r] = "done" /\ outcome[r] = "NothingStaged"
        /\ updated[r] = "True" /\ updated_keys[r] # <<>>
        /\ wt[r] = localBranch[r].doc

\* C19: a run sends a request to the hosting API only after its own push
\* was accepted; a run whose push was rejected, whose rebase failed or that
\* committed nothing has sent none.
C19_RequestOnlyAfterAcceptedPush ==
    /\ [][\A r \in Runs : api'[r] # api[r] =>
            /\ accepted[r] /\ commits[r] = 1 /\ pushes[r] = 1
            /\ api[r] = <<>>]_vars
    /\ [](\A r \in Runs :
            (\/ ~accepted[r]
             \/ commits[r] = 0
             \/ outcome[r] \in {"PushFailed", "RebaseFailed", "NothingStaged",
                                "UpToDate", "Crash", "NoAmi", "MergeConflict"})
                => api[r] = <<>>)

C19_Witness ==
    \E r \in Runs :
        /\ outcome[r] = "PushFailed" /\ commits[r] = 1 /\ api[r] = <<>>
        /\ accepted[Other(r)] /\ api[Other(r)] # <<>>

\* C20: the remote update branch moves to another commit only in the push
\* step of a run, to that run's local update branch; no commit made by a
\* run whose push was not accepted (its local merge of main included) is on
\* the remote update branch.
C20_RemoteMovesOnlyByPush ==
    /\ [][(remoteBranch' # remoteBranch /\ deletes' = deletes) =>
            \E r \in Runs :
                /\ pc[r] = "push" /\ pushes'[r] = pushes[r] + 1
                /\ ~accepted[r] /\ accepted'[r]
                /\ remoteBranch' = localBranch[r]]_vars
    /\ [](\A r \in Runs : ~accepted[r] =>
            \A c \in Ancestors(remoteBranch) : c.author # r)

\* a run merged main into its local update branch, found no field to change
\* and ended; the merge commit is not on the remote
C20_Witness ==
    \E r \in Runs :
        /\ pc[r] = "done" /\ outcome[r] = "UpToDate" /\ differ[r]
        /\ localBranch[r].author = r
        /\ Cardinality(localBranch[r].parents) = 2
        /\ remoteBranch # NoCommit
        /\ localBranch[r] \notin Ancestors(remoteBranch)

====
